---- MODULE Spec2Model ----
(***************************************************************************)
(* GenTrack (src/app.py): the probe scheduler, the incident engine and the *)
(* store they share.                                                       *)
(*                                                                         *)
(* The store is PostgreSQL at its default isolation level READ COMMITTED:  *)
(* every statement reads the rows committed when it starts plus the rows   *)
(* its own transaction wrote, writes stay private until commit, and an     *)
(* UPDATE of a row that another open transaction has updated waits for     *)
(* that transaction to end and is then applied to the row as it stands.    *)
(* The monitor thread (monitor_loop) and the request threads               *)
(* (manual_check) each work on a connection of their own.                  *)
(*                                                                         *)
(* Time is counted in clock ticks, TicksPerSecond ticks to the second, so  *)
(* that the conversion of a time difference to whole seconds is a real     *)
(* computation.                                                            *)
(***************************************************************************)
EXTENDS Integers, Sequences, FiniteSets, TLC

\* ---------------------------------------------------------------- bounds
MaxTime == 2
MaxChecks == 4
MaxFaults == 1
TicksPerSecond == 2
\* The monitor thread on its own is followed over a longer stretch.
SchedMaxTime == 6
SchedMaxChecks == 4
\* The program with delete and create requests is followed over a shorter
\* stretch.
DelMaxTime == 2
DelMaxChecks == 2
\* The monitor thread with create requests.
RegMaxTime == 2
RegMaxChecks == 3
\* The program with three probe outcomes likewise.
EngMaxTime == 2
EngMaxChecks == 3
\* Runs of init_db on one database.
MaxInitRuns == 2

\* ------------------------------------------------------ program constants
\* int(os.getenv("MONITOR_POLL_SECONDS", "5")): the deployment modelled
\* sets it to 1, the shortest sleep that still separates two ticks.
MONITOR_POLL_SECONDS == 1

Null == 0 - 1

Workers == {"w1"}
Monitor == "mon"
Procs == {Monitor} \cup Workers

\* The ids table targets hands out in the model.
TargetIds == {1, 2}

\* The urls targets are registered with, by the id the first two get.
Urls == <<"http://a", "http://b">>

VARIABLES
    now,          \* utc_now(), in ticks
    targets,      \* committed rows of table targets
    checks,       \* committed rows of table checks
    incidents,    \* committed rows of table incidents
    nextCheckId,  \* sequence checks_id_seq
    nextIncId,    \* sequence incidents_id_seq
    proc,         \* per thread: position and locals of run_single_check
    mon,          \* locals of monitor_loop
    faults,       \* store faults injected so far
    seq,          \* the same checks applied one after the other in commit order
    classified,   \* one probe of run_single_check: what urlopen did, the verdict
    monitor_started,  \* the module global monitor_started
    starters,     \* per calling thread: position in start_monitor_thread
    monitor_threads,  \* worker threads created by start_monitor_thread
    schema,       \* tables, columns and indexes of the database; runs of init_db
    nextTargetId, \* sequence targets_id_seq
    deleter       \* the thread of a delete_target request: position and locals

\* What the steps of the monitor and of the request handlers never touch.
startup == <<classified, monitor_started, starters, monitor_threads, schema>>

vars == <<now, targets, checks, incidents, nextCheckId, nextIncId, proc, mon, faults, seq,
          startup, nextTargetId, deleter>>

\* ----------------------------------------------------------------- rows
NoRow == [id |-> Null, is_up |-> FALSE]
NoCheck == [id |-> Null, target_id |-> Null, checked_at |-> Null,
            status_code |-> Null, latency_ms |-> Null,
            is_up |-> FALSE, reason_code |-> "null", error_message |-> <<>>]
NoWrite == [op |-> "none", id |-> Null]
NoResponse == [status |-> Null, url |-> ""]

Max(a, b) == IF a >= b THEN a ELSE b

\* int(x) of Python truncates toward zero.
IntTrunc(num, den) == IF num >= 0 THEN num \div den ELSE 0 - ((0 - num) \div den)

\* ------------------------------------------------------------- the store
\* normalize_target_payload: timeout_seconds is at least 1.  The targets of
\* the model have the smallest value.
MinTimeoutSeconds == 1
Target(id, url, interval) ==
    [id |-> id, url |-> url, interval_seconds |-> interval,
     timeout_seconds |-> MinTimeoutSeconds]
TargetRow(id, interval) == Target(id, Urls[id], interval)
TargetById(t) == CHOOSE r \in targets : r.id = t
RegisteredIds == {r.id : r \in targets}

ChecksOf(t) == {c \in checks : c.target_id = t}
IncidentsOf(t) == {i \in incidents : i.target_id = t}
OpenIncidentsOf(t) == {i \in IncidentsOf(t) : ~i.is_resolved}

\* ORDER BY checked_at ASC: the first check of the target, not the last.
get_last_check_First(t) ==
    IF ChecksOf(t) = {} THEN {NoRow}
    ELSE { [id |-> c.id, is_up |-> c.is_up] :
             c \in {c \in ChecksOf(t) :
                      \A d \in ChecksOf(t) : d.checked_at >= c.checked_at} }

\* get_last_check: SELECT ... ORDER BY checked_at DESC LIMIT 1.  Rows that
\* tie on checked_at come in an order SQL does not fix.
get_last_check(t) ==
    IF ChecksOf(t) = {} THEN {NoRow}
    ELSE { [id |-> c.id, is_up |-> c.is_up] :
             c \in {c \in ChecksOf(t) :
                      \A d \in ChecksOf(t) : d.checked_at <= c.checked_at} }

\* get_open_incident: SELECT ... WHERE is_resolved = FALSE
\* ORDER BY started_at DESC LIMIT 1.  The result is Null or the row's id.
get_open_incident(t) ==
    IF OpenIncidentsOf(t) = {} THEN {Null}
    ELSE { i.id : i \in {i \in OpenIncidentsOf(t) :
                           \A j \in OpenIncidentsOf(t) : j.started_at <= i.started_at} }

IncidentById(id) == CHOOSE i \in incidents : i.id = id

\* ------------------------------------------------- the incident engine
prev_is_up(prev_check) ==
    IF prev_check.id = Null THEN "None"
    ELSE IF prev_check.is_up THEN "True" ELSE "False"

\* update_incident_state with the "not open_incident" tests left out: every
\* down check inserts an incident.
IncidentBranch_OpenUnguarded(prev, current_is_up, has_open) ==
    IF current_is_up
    THEN IF prev = "False" /\ has_open THEN "close" ELSE "none"
    ELSE "open"

\* The branch update_incident_state takes: "close" (UPDATE), "open"
\* (either INSERT branch) or "none".
IncidentBranch(prev, current_is_up, has_open) ==
    IF current_is_up
    THEN IF prev = "False" /\ has_open THEN "close" ELSE "none"
    ELSE IF prev # "False" /\ ~has_open THEN "open"
         ELSE IF prev = "False" /\ ~has_open THEN "open"
         ELSE "none"

\* The difference taken as it comes, not converted to whole seconds.
duration_seconds_Unconverted(checked_at, started_at) ==
    Max(0, checked_at - started_at)

duration_seconds(checked_at, started_at) ==
    Max(0, IntTrunc(checked_at - started_at, TicksPerSecond))

\* The INSERT without reason_message.
NewIncident_NoMessage(id, t, current_check) ==
    [id |-> id, target_id |-> t, started_at |-> current_check.checked_at,
     ended_at |-> Null, duration_seconds |-> Null, is_resolved |-> FALSE,
     reason_code |-> current_check.reason_code,
     reason_message |-> <<>>,
     start_check_id |-> current_check.id, recovery_check_id |-> Null]

NewIncident(id, t, current_check) ==
    [id |-> id, target_id |-> t, started_at |-> current_check.checked_at,
     ended_at |-> Null, duration_seconds |-> Null, is_resolved |-> FALSE,
     reason_code |-> current_check.reason_code,
     reason_message |-> current_check.error_message,
     start_check_id |-> current_check.id, recovery_check_id |-> Null]

\* The row an UPDATE ... WHERE id = w.id leaves behind.
Resolve(i, w) ==
    [i EXCEPT !.ended_at = w.ended_at, !.duration_seconds = w.duration_seconds,
              !.is_resolved = TRUE, !.recovery_check_id = w.recovery_check_id]

\* ---------------------------------------------------------------- init_db
\* A database: its tables, its columns as <<table, column>>, its indexes,
\* and rows as [table, id, values], values giving each column of the row.
Db(tables, columns, indexes, rows) ==
    [tables |-> tables, columns |-> columns, indexes |-> indexes, rows |-> rows]
EmptyDb == Db({}, {}, {}, {})

TargetsColumns ==
    {"id", "name", "url", "interval_seconds", "timeout_seconds", "expected_substring",
     "expected_json_keys", "max_latency_ms", "created_at"}
ChecksColumns ==
    {"id", "target_id", "checked_at", "status_code", "latency_ms", "is_up",
     "reason_code", "error_message"}
IncidentsColumns ==
    {"id", "target_id", "started_at", "ended_at", "duration_seconds", "is_resolved",
     "reason_code", "reason_message", "start_check_id", "recovery_check_id"}

\* DROP TABLE IF EXISTS followed by CREATE TABLE: the rows go with the table.
CreateTableIfNotExists_DropFirst(db, table, columns, indexes) ==
    Db(db.tables \cup {table},
       {c \in db.columns : c[1] # table} \cup {<<table, c>> : c \in columns},
       db.indexes \cup indexes,
       {r \in db.rows : r.table # table})

\* CREATE TABLE IF NOT EXISTS: nothing when a table of that name exists,
\* otherwise the table, its columns and the indexes of its constraints.
CreateTableIfNotExists(db, table, columns, indexes) ==
    IF table \in db.tables THEN db
    ELSE Db(db.tables \cup {table},
            db.columns \cup {<<table, c>> : c \in columns},
            db.indexes \cup indexes,
            db.rows)

\* ALTER TABLE ... ADD COLUMN IF NOT EXISTS: existing rows get NULL in it.
AddColumnIfNotExists(db, table, column) ==
    IF <<table, column>> \in db.columns THEN db
    ELSE Db(db.tables,
            db.columns \cup {<<table, column>>},
            db.indexes,
            { IF r.table = table
              THEN [r EXCEPT !.values =
                       [c \in DOMAIN r.values \cup {column} |->
                          IF c \in DOMAIN r.values THEN r.values[c] ELSE Null]]
              ELSE r : r \in db.rows })

\* CREATE INDEX IF NOT EXISTS
CreateIndexIfNotExists(db, index) ==
    Db(db.tables, db.columns, db.indexes \cup {index}, db.rows)

\* The statements of init_db in order, then the commit.
init_db(db) ==
    LET s1 == CreateTableIfNotExists(db, "targets", TargetsColumns,
                                     {"targets_pkey", "targets_url_key"})
        s2 == AddColumnIfNotExists(s1, "targets", "expected_substring")
        s3 == AddColumnIfNotExists(s2, "targets", "expected_json_keys")
        s4 == AddColumnIfNotExists(s3, "targets", "max_latency_ms")
        s5 == CreateTableIfNotExists(s4, "checks", ChecksColumns, {"checks_pkey"})
        s6 == AddColumnIfNotExists(s5, "checks", "reason_code")
        s7 == CreateTableIfNotExists(s6, "incidents", IncidentsColumns, {"incidents_pkey"})
        s8 == CreateIndexIfNotExists(s7, "idx_checks_target_time")
        s9 == CreateIndexIfNotExists(s8, "idx_checks_checked_at")
        s10 == CreateIndexIfNotExists(s9, "idx_incidents_target_time")
    IN  CreateIndexIfNotExists(s10, "idx_incidents_open")

\* create_app on an empty database: init_db has run once.
FreshSchema == [db |-> init_db(EmptyDb), runs |-> 1]

\* --------------------------------------------------------------- threads
IdleProc(pc) ==
    [pc |-> pc, target |-> Null, url |-> "", prev_check |-> NoRow, checked_at |-> Null,
     check |-> NoCheck, open_incident |-> Null, open_started_at |-> Null,
     write |-> NoWrite, lost |-> FALSE, rows_inserted |-> 0, rows_updated |-> 0,
     creating |-> FALSE, response |-> NoResponse]

\* The thread of a request back to idle.  The answer of create_target is
\* kept: its status and the url the request asked for.
Respond(p, status) ==
    [IdleProc("idle") EXCEPT
        !.response = IF proc[p].creating
                     THEN [status |-> status, url |-> proc[p].url]
                     ELSE NoResponse]

InitMon == [now |-> Null, due |-> <<>>, tick_due |-> <<>>, rows |-> {}, entered |-> {},
            failed_at |-> Null,
            failed_check |-> Null, failed_write |-> NoWrite,
            conn |-> FALSE, open_conns |-> 0, wake_at |-> 0]

\* The thread of a delete_target request: idle, or between its DELETE and
\* its conn.commit() with the rowcount of the DELETE.
NoDelete == [pc |-> "idle", target |-> Null, affected |-> 0]

InitSeq == [t \in TargetIds |-> [count |-> 0, last |-> "None", open |-> FALSE]]

\* ------------------------------------------- the probe and its verdict
\* An exception as classify_exception looks at it: its classes, the classes
\* of exc.reason, str(exc), and which of the phrases the code searches for
\* occur in str(exc.reason).lower() and in str(exc).lower().
Exc(isa, reason_isa, reason_phrases, text, phrases) ==
    [isa |-> isa, reason_isa |-> reason_isa, reason_phrases |-> reason_phrases,
     text |-> text, phrases |-> phrases]
NoExc == Exc({}, {}, {}, "", {})

\* int(part) in json_path_exists on a part that str.isdigit accepts and
\* int rejects, such as a superscript digit.
IntValueError ==
    Exc({"ValueError"}, {}, {}, "invalid literal for int() with base 10: '²'", {})

\* Exceptions urlopen and resp.read raise.  (IntValueError is raised inside
\* the same try, by validate_content_rules: see probe.)
Exceptions ==
    { Exc({"TimeoutError", "OSError"}, {}, {}, "timed out", {"timed out"}),
      Exc({"URLError", "OSError"}, {"gaierror", "OSError"}, {"name or service not known"},
          "<urlopen error [Errno -2] Name or service not known>",
          {"name or service not known"}),
      Exc({"URLError", "OSError"}, {"gaierror", "OSError"}, {},
          "<urlopen error [Errno 8] nodename nor servname provided>", {}),
      Exc({"URLError", "OSError"}, {"SSLError", "OSError"}, {"ssl", "certificate"},
          "<urlopen error [SSL: CERTIFICATE_VERIFY_FAILED] certificate verify failed>",
          {"ssl", "certificate"}),
      Exc({"URLError", "OSError"}, {"OSError"}, {"certificate"},
          "<urlopen error certificate has expired>", {"certificate"}),
      Exc({"URLError", "OSError"}, {"TimeoutError", "OSError"}, {"timed out"},
          "<urlopen error timed out>", {"timed out"}),
      Exc({"URLError", "OSError"}, {"SSLError", "OSError"}, {"ssl", "timed out"},
          "<urlopen error _ssl.c: The handshake operation timed out>",
          {"ssl", "timed out"}),
      Exc({"URLError", "OSError"}, {"ConnectionRefusedError", "OSError"}, {},
          "<urlopen error [Errno 111] Connection refused>", {}),
      Exc({"SSLError", "OSError"}, {}, {}, "[SSL] record layer failure", {"ssl"}),
      Exc({"OSError"}, {}, {}, "The read operation timed out", {"timed out"}),
      Exc({"BadStatusLine", "HTTPException"}, {}, {}, "timed out", {"timed out"}),
      Exc({"URLError", "OSError"}, {"str"}, {"timed out"},
          "<urlopen error timed out>", {"timed out"}),
      Exc({"ConnectionResetError", "OSError"}, {}, {},
          "[Errno 104] Connection reset by peer", {}),
      Exc({"IncompleteRead", "HTTPException"}, {}, {},
          "IncompleteRead(0 bytes read)", {}),
      Exc({"NotConnected", "HTTPException"}, {}, {}, "", {}) }

classify_exception(exc) ==
    IF "TimeoutError" \in exc.isa
    THEN <<"timeout", <<"Timeout de conexao.">> >>
    ELSE IF "URLError" \in exc.isa
    THEN IF "gaierror" \in exc.reason_isa
            \/ "name or service not known" \in exc.reason_phrases
         THEN <<"dns_error", <<"Erro de DNS.">> >>
         ELSE IF "SSLError" \in exc.reason_isa
                 \/ "ssl" \in exc.reason_phrases
                 \/ "certificate" \in exc.reason_phrases
         THEN <<"ssl_error", <<"Erro SSL/TLS.">> >>
         ELSE IF "timed out" \in exc.reason_phrases
         THEN <<"timeout", <<"Timeout de conexao.">> >>
         ELSE <<"connection_error", <<"Falha de conexao: ", exc.text>> >>
    ELSE IF "SSLError" \in exc.isa
    THEN <<"ssl_error", <<"Erro SSL/TLS.">> >>
    ELSE IF "timed out" \in exc.phrases
    THEN <<"timeout", <<"Timeout de conexao.">> >>
    ELSE <<"unknown_error",
           <<IF exc.text # "" THEN exc.text ELSE "Erro desconhecido.">> >>

\* expected_json_keys is stored as comma-separated text; here the text is
\* the sequence of its comma-separated parts, "" for a blank part.
parse_expected_json_keys(raw_value) == SelectSeq(raw_value, LAMBDA part : part # "")

\* A response body: the texts it contains, whether json.loads accepts it,
\* the key paths json_path_exists finds in the parsed document, and the
\* key paths on which it raises (a part that is no decimal number although
\* str.isdigit accepts it, met at a list).
Body(substrings, is_json, paths, raising) ==
    [substrings |-> substrings, is_json |-> is_json, paths |-> paths,
     raising |-> raising]
NoBody == Body({}, FALSE, {}, {})

\* "True", "False", or "ValueError" when int(part) raises.
json_path_exists(body, path) ==
    IF path \in body.raising THEN "ValueError"
    ELSE IF path \in body.paths THEN "True" ELSE "False"

\* The content rules of a target: max_latency_ms (Null: none),
\* expected_substring ("": none, as None and "" are both falsy) and
\* expected_json_keys.
Rules(max_latency_ms, expected_substring, expected_json_keys) ==
    [max_latency_ms |-> max_latency_ms, expected_substring |-> expected_substring,
     expected_json_keys |-> expected_json_keys]

Valid == <<TRUE, "null", <<>> >>
\* validate_content_rules left by an exception instead of a return.
Raised(exc) == <<FALSE, "raised", exc>>

validate_content_rules(target, body, latency_ms) ==
    LET expected_keys == parse_expected_json_keys(target.expected_json_keys)
        missing == {i \in 1..Len(expected_keys) :
                      json_path_exists(body, expected_keys[i]) # "True"}
        first == CHOOSE i \in missing : \A j \in missing : i <= j
    IN  IF /\ target.max_latency_ms # Null
           /\ latency_ms # Null
           /\ latency_ms > target.max_latency_ms
        THEN <<FALSE, "latency_exceeded",
               <<"Latencia acima do maximo", latency_ms, target.max_latency_ms>> >>
        ELSE IF target.expected_substring # ""
                /\ target.expected_substring \notin body.substrings
        THEN <<FALSE, "content_mismatch",
               <<"Conteudo esperado nao encontrado: ", target.expected_substring>> >>
        ELSE IF expected_keys # <<>> /\ ~body.is_json
        THEN <<FALSE, "invalid_json", <<"Resposta nao e JSON valido.">> >>
        ELSE IF expected_keys # <<>> /\ missing # {}
        THEN IF json_path_exists(body, expected_keys[first]) = "ValueError"
             THEN Raised(IntValueError)
             ELSE <<FALSE, "json_schema_mismatch",
                    <<"Chave JSON ausente: ", expected_keys[first]>> >>
        ELSE Valid

\* What request.urlopen and resp.read did: path "response" (urlopen
\* returned and the body was read), "http_error" (urlopen raised HTTPError
\* with exc.code = status_code) or "exception" (anything else was raised;
\* status_code is set when that happened after resp.getcode()).
\* latency_ms is the time measured on that path; except_ms is the time the
\* generic except clause measures when it is reached from the "response"
\* path, by an exception of validate_content_rules.
Outcome(path, status_code, latency_ms, except_ms, body, exc) ==
    [path |-> path, status_code |-> status_code, latency_ms |-> latency_ms,
     except_ms |-> except_ms, body |-> body, exc |-> exc]

Verdict(status_code, latency_ms, is_up, reason_code, error_message) ==
    [status_code |-> status_code, latency_ms |-> latency_ms, is_up |-> is_up,
     reason_code |-> reason_code, error_message |-> error_message]
NoVerdict == Verdict(Null, Null, FALSE, "null", <<>>)

\* The HTTPError clause leaving the check without a reason.
HttpErrorVerdict_NoReason(o) ==
    Verdict(o.status_code, o.latency_ms, FALSE, "null", <<"HTTP", o.status_code>>)

\* except error.HTTPError as exc
HttpErrorVerdict(o) ==
    Verdict(o.status_code, o.latency_ms, FALSE,
            IF o.status_code >= 500 THEN "http_5xx" ELSE "http_4xx",
            <<"HTTP", o.status_code>>)

\* is_up = 200 <= status_code < 400 and the reason and message that follow
StatusVerdict(o) ==
    LET is_up == 200 <= o.status_code /\ o.status_code < 400
    IN  Verdict(o.status_code, o.latency_ms, is_up,
                IF is_up THEN "null"
                ELSE IF o.status_code >= 500 THEN "http_5xx" ELSE "http_4xx",
                IF is_up THEN <<>> ELSE <<"HTTP", o.status_code>>)

\* The try/except of run_single_check around urlopen.  An exception of
\* validate_content_rules is caught by the same except clause as one of
\* urlopen: status_code keeps the value it was given, and latency_ms, which
\* the latency rule was tested with, is measured anew.
probe(target, o) ==
    IF o.path = "response"
    THEN LET v == StatusVerdict(o)
             r == validate_content_rules(target, o.body, o.latency_ms)
         IN  IF v.is_up /\ r[2] = "raised"
             THEN LET c == classify_exception(r[3])
                  IN  Verdict(o.status_code, o.except_ms, FALSE, c[1], c[2])
             ELSE IF v.is_up /\ ~r[1]
             THEN [v EXCEPT !.is_up = FALSE, !.reason_code = r[2], !.error_message = r[3]]
             ELSE v
    ELSE IF o.path = "http_error"
    THEN HttpErrorVerdict(o)
    ELSE LET c == classify_exception(o.exc)
         IN  Verdict(o.status_code, o.latency_ms, FALSE, c[1], c[2])

\* Status codes urlopen returns a response for: it raises HTTPError for
\* every final status outside 200..299.
ResponseCodes == {200, 204}
\* Codes HTTPError carries: 304 and 300 have no handler, 302 is raised for a
\* redirect loop or a redirect without Location.
HttpErrorCodes == {101, 300, 302, 304, 400, 404, 499, 500, 503}
\* Values of int((time.perf_counter() - started) * 1000): 0 when less than
\* a millisecond was measured.
LatencyValues == {0, 1, 2, 3}
\* The time measured when timeout_seconds have passed, and what the call
\* took besides.
TimeoutLatencyValues == {MinTimeoutSeconds * 1000, MinTimeoutSeconds * 1000 + 2}
\* socket.timeout, raised by the timer of urlopen(req, timeout=...), alone
\* or as the reason of a URLError.  The words "timed out" in the text of
\* another exception say nothing of the time that has passed.
IsTimeout(exc) ==
    \/ "TimeoutError" \in exc.isa
    \/ "TimeoutError" \in exc.reason_isa
\* In a document that has "a", "a" may be a list: then the path "a.²"
\* makes json_path_exists raise.
Bodies ==
    { Body(ss, j, IF j THEN ps ELSE {},
           IF j /\ "a" \in ps /\ list THEN {"a.²"} ELSE {}) :
        ss \in {{}, {"ok"}}, j \in BOOLEAN, ps \in {{}, {"a"}, {"a", "b"}},
        list \in BOOLEAN }
RuleSets ==
    { Rules(m, e, k) : m \in {Null, 2}, e \in {"", "ok"},
                       k \in {<<>>, <<"a">>, <<"a", "", "b">>, <<"b", "a.²">>} }
Outcomes ==
    { Outcome("response", c, l, l, b, NoExc) :
        c \in ResponseCodes, l \in LatencyValues, b \in Bodies }
    \cup { Outcome("response", c, l, l + 1, b, NoExc) :
             c \in ResponseCodes, l \in LatencyValues,
             b \in {d \in Bodies : d.raising # {}} }
    \cup { Outcome("http_error", c, l, l, NoBody, NoExc) :
             c \in HttpErrorCodes, l \in LatencyValues }
    \cup { Outcome("exception", c, l, l, NoBody, e) :
             c \in {Null, 200}, e \in {e \in Exceptions : ~IsTimeout(e)},
             l \in LatencyValues \cup TimeoutLatencyValues }
    \cup { Outcome("exception", c, l, l, NoBody, e) :
             c \in {Null, 200}, e \in {e \in Exceptions : IsTimeout(e)},
             l \in TimeoutLatencyValues }

NoClassified == [pc |-> "none", target |-> Rules(Null, "", <<>>),
                 outcome |-> Outcome("none", Null, Null, Null, NoBody, NoExc),
                 check |-> NoVerdict]

\* What the servers behind the urls of the model do when probed: the first
\* answers 200 or 503 within a millisecond, the second at times does not
\* answer at all, and urlopen raises when timeout_seconds have passed.
ServerOutcomes(url) ==
    { Outcome("response", 200, 1, 1, NoBody, NoExc),
      Outcome("http_error", 503, 1, 1, NoBody, NoExc) }
    \cup IF url = Urls[1] THEN {}
         ELSE { Outcome("exception", Null, MinTimeoutSeconds * 1000 + 2,
                        MinTimeoutSeconds * 1000 + 2, NoBody,
                        Exc({"TimeoutError", "OSError"}, {}, {}, "timed out",
                            {"timed out"})) }

\* What a probe of a target without content rules can yield after
\* classification (run_single_check, the try/except around urlopen).
ProbeOutcomes(url) == { probe(Rules(Null, "", <<>>), o) : o \in ServerOutcomes(url) }

\* ------------------------------------------------- start_monitor_thread
\* Threads that call start_monitor_thread (create_app called from each).
Callers == {"c1", "c2", "c3"}

\* The store right after a target was registered: create_target has
\* committed the row and its first check has not been recorded.
Store0 ==
    /\ now = 0
    /\ checks = {}
    /\ incidents = {}
    /\ nextCheckId = 1
    /\ nextIncId = 1
    /\ proc = [p \in Procs |-> IF p = Monitor THEN IdleProc("connect") ELSE IdleProc("idle")]
    /\ mon = InitMon
    /\ faults = 0
    /\ seq = InitSeq
    /\ deleter = NoDelete

\* create_app has returned: its one call of start_monitor_thread started the
\* monitor; no probe is being looked at.
Started ==
    /\ classified = NoClassified
    /\ monitor_started = TRUE
    /\ starters = [c \in Callers |-> "returned"]
    /\ monitor_threads = 1
    /\ schema = FreshSchema
    /\ nextTargetId = Cardinality(targets) + 1

\* One registered target, probed every second.
Init ==
    /\ targets = {TargetRow(1, 1)}
    /\ Store0
    /\ Started

\* Two registered targets, probed every second.
SchedInit ==
    /\ targets = {TargetRow(1, 1), TargetRow(2, 1)}
    /\ Store0
    /\ Started

\* Calls of run_single_check that have not yet drawn their check id, and
\* create_target requests on their way to the call.
Starting ==
    {p \in Procs : proc[p].pc \in {"create_wait", "create_commit", "select_row",
                                   "read_last", "utc_now", "probe",
                                   "insert_check"}}
MayStart(maxChecks) == nextCheckId + Cardinality(Starting) <= maxChecks

\* ------------------------------------------------------ run_single_check
\* prev_check = get_last_check(conn, target["id"]); checked_at = utc_now()
ReadLast(p) ==
    /\ proc[p].pc = "read_last"
    /\ \E prev \in get_last_check(proc[p].target) :
         proc' = [proc EXCEPT ![p].prev_check = prev,
                              ![p].pc = "utc_now"]
    /\ UNCHANGED <<startup, deleter, nextTargetId, now, targets, checks, incidents, nextCheckId, nextIncId, mon, faults, seq>>

\* started = time.perf_counter(); checked_at = utc_now(): the clock as it
\* is once the SELECT of get_last_check has returned, which can be later
\* than the moment the store executed the SELECT.
CheckedAt(p) ==
    /\ proc[p].pc = "utc_now"
    /\ proc' = [proc EXCEPT ![p].checked_at = now, ![p].pc = "probe"]
    /\ UNCHANGED <<startup, deleter, nextTargetId, now, targets, checks, incidents, nextCheckId, nextIncId, mon, faults, seq>>

\* The ticks that have passed at the least when latency_ms milliseconds
\* have been measured since checked_at was read.
TicksOf(latency_ms) == (latency_ms * TicksPerSecond) \div 1000

\* urlopen and the classification of its outcome.  A server that answers
\* within milliseconds lets the call return in the tick it began in; an
\* outcome with a latency of seconds, the timeout, is there only when that
\* time has passed.
Probe(p) ==
    /\ proc[p].pc = "probe"
    /\ \E o \in ProbeOutcomes(proc[p].url) :
         /\ now - proc[p].checked_at >= TicksOf(o.latency_ms)
         /\ proc' = [proc EXCEPT
                        ![p].check =
                            [id |-> Null, target_id |-> proc[p].target,
                             checked_at |-> proc[p].checked_at,
                             status_code |-> o.status_code,
                             latency_ms |-> o.latency_ms,
                             is_up |-> o.is_up, reason_code |-> o.reason_code,
                             error_message |-> o.error_message],
                        ![p].pc = "insert_check"]
    /\ UNCHANGED <<startup, deleter, nextTargetId, now, targets, checks, incidents, nextCheckId, nextIncId, mon, faults, seq>>

\* delete_target has executed its DELETE of target t and not yet ended its
\* transaction: the row is still visible to the others and locked.
DeletePending(t) ==
    deleter.pc = "commit" /\ deleter.target = t /\ deleter.affected = 1

\* INSERT INTO checks ... RETURNING id.  target_id REFERENCES targets(id):
\* the row is accepted while the target row exists and no uncommitted
\* DELETE holds it.
InsertCheck(p) ==
    /\ proc[p].pc = "insert_check"
    /\ proc[p].target \in RegisteredIds
    /\ ~DeletePending(proc[p].target)
    /\ proc' = [proc EXCEPT ![p].check.id = nextCheckId, ![p].pc = "read_open"]
    /\ nextCheckId' = nextCheckId + 1
    /\ UNCHANGED <<startup, deleter, nextTargetId, now, targets, checks, incidents, nextIncId, mon, faults, seq>>

\* The same INSERT issued while an uncommitted DELETE holds the target row:
\* the id is drawn at once, then the foreign key check waits for the
\* deleting transaction to end.
InsertCheckWait(p) ==
    /\ proc[p].pc = "insert_check"
    /\ DeletePending(proc[p].target)
    /\ proc' = [proc EXCEPT ![p].check.id = nextCheckId, ![p].pc = "insert_wait"]
    /\ nextCheckId' = nextCheckId + 1
    /\ UNCHANGED <<startup, deleter, nextTargetId, now, targets, checks, incidents, nextIncId, mon, faults, seq>>

\* The deleting transaction ended without deleting the row: the waiting
\* INSERT is accepted.
InsertCheckGranted(p) ==
    /\ proc[p].pc = "insert_wait"
    /\ proc[p].target \in RegisteredIds
    /\ ~DeletePending(proc[p].target)
    /\ proc' = [proc EXCEPT ![p].pc = "read_open"]
    /\ UNCHANGED <<startup, deleter, nextTargetId, now, targets, checks, incidents, nextCheckId, nextIncId, mon, faults, seq>>

\* update_incident_state up to its branch: open_incident = get_open_incident
ReadOpen(p) ==
    /\ proc[p].pc = "read_open"
    /\ \E o \in get_open_incident(proc[p].target) :
         LET branch == IncidentBranch(prev_is_up(proc[p].prev_check),
                                      proc[p].check.is_up, o # Null)
         IN proc' = [proc EXCEPT
                ![p].open_incident = o,
                ![p].open_started_at = IF o = Null THEN Null ELSE IncidentById(o).started_at,
                ![p].pc = IF branch = "none" THEN "commit" ELSE "write_incident"]
    /\ UNCHANGED <<startup, deleter, nextTargetId, now, targets, checks, incidents, nextCheckId, nextIncId, mon, faults, seq>>

RowLockedByOther(p, id) ==
    \E q \in Procs \ {p} : proc[q].write.op = "update" /\ proc[q].write.id = id

\* update_incident_state, the UPDATE or the INSERT of the branch taken.
WriteIncident(p) ==
    /\ proc[p].pc = "write_incident"
    /\ LET branch == IncidentBranch(prev_is_up(proc[p].prev_check),
                                    proc[p].check.is_up, proc[p].open_incident # Null)
       IN IF branch = "close"
          THEN /\ ~RowLockedByOther(p, proc[p].open_incident)
               /\ proc' = [proc EXCEPT
                     ![p].write = [op |-> "update", id |-> proc[p].open_incident,
                                   ended_at |-> proc[p].check.checked_at,
                                   duration_seconds |->
                                       duration_seconds(proc[p].check.checked_at,
                                                        proc[p].open_started_at),
                                   recovery_check_id |-> proc[p].check.id],
                     ![p].rows_updated = @ + 1,
                     ![p].pc = "commit"]
               /\ UNCHANGED nextIncId
          ELSE /\ proc' = [proc EXCEPT
                     ![p].write = [op |-> "insert", id |-> nextIncId],
                     ![p].rows_inserted = @ + 1,
                     ![p].pc = "commit"]
               /\ nextIncId' = nextIncId + 1
    /\ UNCHANGED <<startup, deleter, nextTargetId, now, targets, checks, incidents, nextCheckId, mon, faults, seq>>

\* A down check that finds an incident open bringing the reason of that
\* incident up to date.
Committed_ReasonRefreshed(p) ==
    LET w == proc[p].write IN
    IF w.op = "insert"
    THEN incidents \cup {NewIncident(w.id, proc[p].target, proc[p].check)}
    ELSE IF w.op = "update"
    THEN {IF i.id = w.id THEN Resolve(i, w) ELSE i : i \in incidents}
    ELSE IF ~proc[p].check.is_up
    THEN {IF i.id = proc[p].open_incident
          THEN [i EXCEPT !.reason_code = proc[p].check.reason_code,
                         !.reason_message = proc[p].check.error_message]
          ELSE i : i \in incidents}
    ELSE incidents

\* The incidents table once the transaction of p is committed.
Committed(p) ==
    LET w == proc[p].write IN
    IF w.op = "insert"
    THEN incidents \cup {NewIncident(w.id, proc[p].target, proc[p].check)}
    ELSE IF w.op = "update"
    THEN {IF i.id = w.id THEN Resolve(i, w) ELSE i : i \in incidents}
    ELSE incidents

\* run_single_check as one uninterrupted call on the state seq[t].
SeqApply(s, is_up) ==
    LET branch == IncidentBranch(s.last, is_up, s.open) IN
    [count |-> IF branch = "open" THEN s.count + 1 ELSE s.count,
     last  |-> IF is_up THEN "True" ELSE "False",
     open  |-> IF branch = "open" THEN TRUE
               ELSE IF branch = "close" THEN FALSE ELSE s.open]

\* datetime.isoformat(): the whole seconds and the fraction of a second.
isoformat(t) == <<t \div TicksPerSecond, t % TicksPerSecond>>

\* The fraction of the second dropped, as isoformat(timespec="seconds").
ReturnedRecord_WholeSeconds(p) ==
    [id |-> proc[p].check.id, target_id |-> proc[p].target,
     checked_at |-> <<proc[p].checked_at \div TicksPerSecond, 0>>,
     status_code |-> proc[p].check.status_code,
     latency_ms |-> proc[p].check.latency_ms,
     is_up |-> proc[p].check.is_up,
     reason_code |-> proc[p].check.reason_code,
     error_message |-> proc[p].check.error_message]

\* The dict run_single_check returns, built from its locals.
ReturnedRecord(p) ==
    [id |-> proc[p].check.id, target_id |-> proc[p].target,
     checked_at |-> isoformat(proc[p].checked_at),
     status_code |-> proc[p].check.status_code,
     latency_ms |-> proc[p].check.latency_ms,
     is_up |-> proc[p].check.is_up,
     reason_code |-> proc[p].check.reason_code,
     error_message |-> proc[p].check.error_message]

\* conn.commit(), then the return to the caller: the for loop of the
\* monitor, manual_check, which answers 200 with the record, or
\* create_target, which goes on to its summary query.
Commit(p) ==
    /\ proc[p].pc = "commit"
    /\ checks' = checks \cup {proc[p].check}
    /\ incidents' = Committed(p)
    /\ seq' = [seq EXCEPT ![proc[p].target] = SeqApply(@, proc[p].check.is_up)]
    /\ IF p = Monitor
       THEN /\ proc' = [proc EXCEPT ![p] = IdleProc("loop")]
            /\ mon' = [mon EXCEPT !.due = Tail(@)]
       ELSE /\ proc' = [proc EXCEPT ![p] =
                          IF proc[p].creating
                          THEN [IdleProc("summary") EXCEPT !.target = proc[p].target,
                                                           !.url = proc[p].url,
                                                           !.creating = TRUE]
                          ELSE Respond(p, 200)]
            /\ UNCHANGED mon
    /\ UNCHANGED <<startup, deleter, nextTargetId, now, targets, nextCheckId, nextIncId, faults>>

\* ----------------------------------------------------------- manual_check
\* get_db_connection, SELECT * FROM targets WHERE id = %s, run_single_check
ManualCheck(w, t, maxChecks) ==
    /\ proc[w].pc = "idle"
    /\ t \in RegisteredIds
    /\ MayStart(maxChecks)
    /\ proc' = [proc EXCEPT ![w].pc = "read_last", ![w].target = t,
                            ![w].url = TargetById(t).url]
    /\ UNCHANGED <<startup, deleter, nextTargetId, now, targets, checks, incidents, nextCheckId, nextIncId, mon, faults, seq>>

StorePcs == {"read_last", "insert_check", "read_open", "write_incident", "commit"}

\* A statement of the request's transaction raises: the finally clause
\* closes the connection, which discards the open transaction, and the
\* request is answered 500.
ManualFail(w) ==
    /\ proc[w].pc \in StorePcs \cup {"create_commit", "select_row", "summary"}
    /\ faults < MaxFaults
    /\ faults' = faults + 1
    /\ proc' = [proc EXCEPT ![w] = Respond(w, 500)]
    /\ UNCHANGED <<startup, deleter, nextTargetId, now, targets, checks, incidents, nextCheckId, nextIncId, mon, seq>>

\* ----------------------------------------------------------- get_due_targets
\* The comparison with > in place of >=.
IsDue_StrictlyLater(t, at) ==
    \/ ChecksOf(t) = {}
    \/ \E c \in ChecksOf(t) :
         /\ \A d \in ChecksOf(t) : d.checked_at <= c.checked_at
         /\ at - c.checked_at > TargetById(t).interval_seconds * TicksPerSecond

\* The test of the loop over the rows: the row of target t as the store has
\* it, against at, the value utc_now() gave before the SELECT was sent.
IsDue(t, at) ==
    \/ ChecksOf(t) = {}
    \/ \E c \in ChecksOf(t) :
         /\ \A d \in ChecksOf(t) : d.checked_at <= c.checked_at
         /\ at - c.checked_at >= TargetById(t).interval_seconds * TicksPerSecond

RECURSIVE AscendingFrom(_, _)
AscendingFrom(S, lo) ==
    IF \A t \in S : t < lo THEN <<>>
    ELSE IF lo \in S THEN <<lo>> \o AscendingFrom(S, lo + 1)
    ELSE AscendingFrom(S, lo + 1)

\* Every row of the SELECT returned, the interval test left out.
get_due_targets_EveryTarget(at) == AscendingFrom(RegisteredIds, 1)

\* The list get_due_targets returns when the store executes its SELECT in
\* the current state and utc_now() had given at.
get_due_targets(at) == AscendingFrom({t \in RegisteredIds : IsDue(t, at)}, 1)

\* ------------------------------------------------------------ monitor_loop
\* conn = get_db_connection()
MonConnect ==
    /\ proc[Monitor].pc = "connect"
    /\ proc' = [proc EXCEPT ![Monitor].pc = "due_now"]
    /\ mon' = [mon EXCEPT !.conn = TRUE, !.open_conns = @ + 1]
    /\ UNCHANGED <<startup, deleter, nextTargetId, now, targets, checks, incidents, nextCheckId, nextIncId, faults, seq>>

\* get_db_connection raises: conn is None, the handler only prints.
MonConnectFail ==
    /\ proc[Monitor].pc = "connect"
    /\ faults < MaxFaults
    /\ faults' = faults + 1
    /\ proc' = [proc EXCEPT ![Monitor].pc = "time_sleep"]
    /\ UNCHANGED <<startup, deleter, nextTargetId, now, targets, checks, incidents, nextCheckId, nextIncId, mon, seq>>

\* get_due_targets up to its SELECT: now = utc_now(), the clock as it is
\* once the connection is there.
MonNow ==
    /\ proc[Monitor].pc = "due_now"
    /\ proc' = [proc EXCEPT ![Monitor].pc = "get_due"]
    /\ mon' = [mon EXCEPT !.now = now]
    /\ UNCHANGED <<startup, deleter, nextTargetId, now, targets, checks, incidents, nextCheckId, nextIncId, faults, seq>>

\* for target in get_due_targets(conn): the SELECT is executed, on the
\* rows of this moment, and the rows are tested against the now read before.
MonGetDue ==
    /\ proc[Monitor].pc = "get_due"
    /\ proc' = [proc EXCEPT ![Monitor].pc = "loop"]
    /\ LET due == get_due_targets(mon.now) IN
       mon' = [mon EXCEPT !.due = due, !.tick_due = due,
                          !.rows = {r \in targets :
                                      \E k \in 1..Len(due) : due[k] = r.id},
                          !.now = Null]
    /\ UNCHANGED <<startup, deleter, nextTargetId, now, targets, checks, incidents, nextCheckId, nextIncId, faults, seq>>

\* The due targets queried anew at every turn of the loop.
MonLoop_DueReevaluated(maxChecks) ==
    LET again == AscendingFrom({t \in RegisteredIds : IsDue(t, now) /\ t \notin mon.entered}, 1) IN
    /\ proc[Monitor].pc = "loop"
    /\ IF again = <<>>
       THEN /\ proc' = [proc EXCEPT ![Monitor].pc = "close"]
            /\ UNCHANGED mon
       ELSE /\ MayStart(maxChecks)
            /\ proc' = [proc EXCEPT
                          ![Monitor].pc = "read_last",
                          ![Monitor].target = Head(again),
                          ![Monitor].url = TargetById(Head(again)).url]
            /\ mon' = [mon EXCEPT !.entered = @ \cup {Head(again)}, !.due = again]
    /\ UNCHANGED <<startup, deleter, nextTargetId, now, targets, checks, incidents, nextCheckId, nextIncId, faults, seq>>

\* The head of the for loop: the next due target, or the end of the try.
MonLoop(maxChecks) ==
    /\ proc[Monitor].pc = "loop"
    /\ IF mon.due = <<>>
       THEN /\ proc' = [proc EXCEPT ![Monitor].pc = "close"]
            /\ UNCHANGED mon
       ELSE /\ MayStart(maxChecks)
            /\ proc' = [proc EXCEPT
                          ![Monitor].pc = "read_last",
                          ![Monitor].target = Head(mon.due),
                          ![Monitor].url =
                              (CHOOSE r \in mon.rows : r.id = Head(mon.due)).url]
            /\ mon' = [mon EXCEPT !.entered = @ \cup {Head(mon.due)}]
    /\ UNCHANGED <<startup, deleter, nextTargetId, now, targets, checks, incidents, nextCheckId, nextIncId, faults, seq>>

\* A handler inside the for loop: the failing target is rolled back and
\* the loop goes on with the next due target.
MonFail_ContinueLoop(lost) ==
    /\ proc[Monitor].pc \in StorePcs \cup {"get_due"}
    /\ faults < MaxFaults
    /\ faults' = faults + 1
    /\ IF proc[Monitor].pc = "get_due"
       THEN /\ proc' = [proc EXCEPT ![Monitor].pc = "except", ![Monitor].lost = lost]
            /\ mon' = [mon EXCEPT !.failed_at = proc[Monitor].target]
       ELSE /\ proc' = [proc EXCEPT ![Monitor] = IdleProc("loop")]
            /\ mon' = [mon EXCEPT !.failed_at = proc[Monitor].target,
                                  !.failed_check = proc[Monitor].check.id,
                                  !.failed_write = proc[Monitor].write,
                                  !.due = Tail(@)]
    /\ UNCHANGED <<startup, deleter, nextTargetId, now, targets, checks, incidents, nextCheckId, nextIncId, seq>>

\* The connection in autocommit mode: the check row inserted before the
\* failure stays in the table.
MonFail_Autocommit(lost) ==
    /\ proc[Monitor].pc \in StorePcs \cup {"get_due"}
    /\ faults < MaxFaults
    /\ faults' = faults + 1
    /\ proc' = [proc EXCEPT ![Monitor].pc = "except", ![Monitor].lost = lost]
    /\ mon' = [mon EXCEPT !.failed_at = proc[Monitor].target,
                          !.failed_check = proc[Monitor].check.id,
                          !.failed_write = proc[Monitor].write]
    /\ checks' = IF proc[Monitor].check.id = Null THEN checks
                 ELSE checks \cup {proc[Monitor].check}
    /\ UNCHANGED <<startup, deleter, nextTargetId, now, targets, incidents, nextCheckId, nextIncId, seq>>

\* A store call of the tick raises: control leaves the for loop for the
\* except clause.  lost: the connection itself is gone.  failed_at,
\* failed_check and failed_write keep what the tick was doing.
MonFail(lost) ==
    /\ proc[Monitor].pc \in StorePcs \cup {"get_due"}
    /\ faults < MaxFaults
    /\ faults' = faults + 1
    /\ proc' = [proc EXCEPT ![Monitor].pc = "except", ![Monitor].lost = lost]
    /\ mon' = [mon EXCEPT !.failed_at = proc[Monitor].target,
                          !.failed_check = proc[Monitor].check.id,
                          !.failed_write = proc[Monitor].write]
    /\ UNCHANGED <<startup, deleter, nextTargetId, now, targets, checks, incidents, nextCheckId, nextIncId, seq>>

\* except Exception: conn.rollback(); print(...).  On a lost connection
\* rollback raises in its turn: finally closes and the exception leaves
\* monitor_loop, which ends the thread.
MonExcept ==
    /\ proc[Monitor].pc = "except"
    /\ proc' = [proc EXCEPT ![Monitor] =
                   IF proc[Monitor].lost THEN IdleProc("terminated") ELSE IdleProc("close")]
    /\ mon' = IF proc[Monitor].lost /\ mon.conn
              THEN [mon EXCEPT !.open_conns = @ - 1]
              ELSE mon
    /\ UNCHANGED <<startup, deleter, nextTargetId, now, targets, checks, incidents, nextCheckId, nextIncId, faults, seq>>

\* conn.close() written at the end of the try body instead of in finally:
\* a tick that raised keeps its connection open.
MonClose_OnlyOnSuccess ==
    /\ proc[Monitor].pc = "close"
    /\ proc' = [proc EXCEPT ![Monitor].pc = "time_sleep"]
    /\ mon' = [mon EXCEPT !.open_conns = IF mon.conn /\ mon.failed_at = Null
                                         THEN @ - 1 ELSE @]
    /\ UNCHANGED <<startup, deleter, nextTargetId, now, targets, checks, incidents, nextCheckId, nextIncId, faults, seq>>

\* finally: if conn: conn.close()
MonClose ==
    /\ proc[Monitor].pc = "close"
    /\ proc' = [proc EXCEPT ![Monitor].pc = "time_sleep"]
    /\ mon' = [mon EXCEPT !.open_conns = IF mon.conn THEN @ - 1 ELSE @]
    /\ UNCHANGED <<startup, deleter, nextTargetId, now, targets, checks, incidents, nextCheckId, nextIncId, faults, seq>>

\* time.sleep(MONITOR_POLL_SECONDS) begins, at the clock as it is once the
\* connection is closed.
MonSleep ==
    /\ proc[Monitor].pc = "time_sleep"
    /\ proc' = [proc EXCEPT ![Monitor].pc = "sleep"]
    /\ mon' = [mon EXCEPT !.wake_at = now + MONITOR_POLL_SECONDS * TicksPerSecond]
    /\ UNCHANGED <<startup, deleter, nextTargetId, now, targets, checks, incidents, nextCheckId, nextIncId, faults, seq>>

\* time.sleep returns, while True starts over: the next tick begins
MonWake ==
    /\ proc[Monitor].pc = "sleep"
    /\ now >= mon.wake_at
    /\ proc' = [proc EXCEPT ![Monitor].pc = "connect"]
    /\ mon' = [InitMon EXCEPT !.open_conns = mon.open_conns]
    /\ UNCHANGED <<startup, deleter, nextTargetId, now, targets, checks, incidents, nextCheckId, nextIncId, faults, seq>>

\* ----------------------------------------------------------- create_target
\* The unique index on url is held for the url by a transaction that has
\* not ended: the row that has the url is under an uncommitted DELETE, or
\* another request has inserted a row with the url and not yet committed.
UrlHeld(url) ==
    \/ \E r \in targets : r.url = url /\ DeletePending(r.id)
    \/ \E q \in Workers : proc[q].pc = "create_commit" /\ proc[q].url = url

\* INSERT INTO targets ... RETURNING id.  url TEXT NOT NULL UNIQUE: for a
\* url already registered the INSERT raises an IntegrityError (the id drawn
\* for the row is used up), which the handler answers with rollback and
\* 409.  Otherwise the row is there for this transaction alone.
CreateTarget(w, url, maxChecks) ==
    /\ proc[w].pc = "idle"
    /\ nextTargetId \in TargetIds
    /\ MayStart(maxChecks)
    /\ ~UrlHeld(url)
    /\ nextTargetId' = nextTargetId + 1
    /\ proc' = [proc EXCEPT ![w] =
                   IF \E r \in targets : r.url = url
                   THEN [proc[w] EXCEPT !.response = [status |-> 409, url |-> url]]
                   ELSE [IdleProc("create_commit") EXCEPT !.target = nextTargetId,
                                                         !.url = url,
                                                         !.creating = TRUE]]
    /\ UNCHANGED <<startup, deleter, now, targets, checks, incidents, nextCheckId, nextIncId, mon, faults, seq>>

\* The same INSERT issued while another transaction holds the url: the id
\* is drawn at once, then the unique index makes the INSERT wait for that
\* transaction to end.
CreateTargetWait(w, url, maxChecks) ==
    /\ proc[w].pc = "idle"
    /\ nextTargetId \in TargetIds
    /\ MayStart(maxChecks)
    /\ UrlHeld(url)
    /\ nextTargetId' = nextTargetId + 1
    /\ proc' = [proc EXCEPT ![w] =
                   [IdleProc("create_wait") EXCEPT !.target = nextTargetId,
                                                   !.url = url,
                                                   !.creating = TRUE]]
    /\ UNCHANGED <<startup, deleter, now, targets, checks, incidents, nextCheckId, nextIncId, mon, faults, seq>>

\* The transaction that held the url has ended: the waiting INSERT returns
\* when the url is free, and raises the IntegrityError when it is not.
CreateTargetResume(w) ==
    /\ proc[w].pc = "create_wait"
    /\ ~UrlHeld(proc[w].url)
    /\ proc' = [proc EXCEPT ![w] =
                   IF \E r \in targets : r.url = proc[w].url
                   THEN Respond(w, 409)
                   ELSE [proc[w] EXCEPT !.pc = "create_commit"]]
    /\ UNCHANGED <<startup, deleter, nextTargetId, now, targets, checks, incidents, nextCheckId, nextIncId, mon, faults, seq>>

\* conn.commit() of create_target: the row is there for everyone.
CreateCommit(w) ==
    /\ proc[w].pc = "create_commit"
    /\ targets' = targets \cup {Target(proc[w].target, proc[w].url, 1)}
    /\ proc' = [proc EXCEPT ![w].pc = "select_row"]
    /\ UNCHANGED <<startup, deleter, nextTargetId, now, checks, incidents, nextCheckId, nextIncId, mon, faults, seq>>

\* SELECT * FROM targets WHERE id = %s; row = cur.fetchone();
\* run_single_check(conn, row).  When the row was deleted since the commit,
\* row is None and run_single_check raises TypeError at target["id"]: no
\* IntegrityError, the request is answered 500 and nothing was probed.
CreateSelectRow(w) ==
    /\ proc[w].pc = "select_row"
    /\ proc' = [proc EXCEPT ![w] =
                   IF proc[w].target \in RegisteredIds
                   THEN [proc[w] EXCEPT !.pc = "read_last"]
                   ELSE Respond(w, 500)]
    /\ UNCHANGED <<startup, deleter, nextTargetId, now, targets, checks, incidents, nextCheckId, nextIncId, mon, faults, seq>>

\* for item in fetch_targets_with_summary(conn): 201 with the item of the
\* new target, 500 when the new target is not among the rows.
CreateSummary(w) ==
    /\ proc[w].pc = "summary"
    /\ proc' = [proc EXCEPT ![w] =
                   IF proc[w].target \in RegisteredIds
                   THEN Respond(w, 201)
                   ELSE Respond(w, 500)]
    /\ UNCHANGED <<startup, deleter, nextTargetId, now, targets, checks, incidents, nextCheckId, nextIncId, mon, faults, seq>>

\* ----------------------------------------------------------- delete_target
\* The INSERT of a check whose target row is gone violates the foreign key:
\* issued after the delete committed (the id drawn for it is used up), or
\* issued before and waiting since.  In the monitor the exception leaves
\* the for loop; in a request it ends the request, and closing the
\* connection discards the transaction.  In create_target the exception is
\* an IntegrityError: rollback, then the 409 answer.  cur.execute raises, so
\* check_id is never assigned: the id the sequence gave is lost, no row was
\* inserted, and the transaction references no target row.
InsertCheckRejected(p) ==
    /\ proc[p].pc \in {"insert_check", "insert_wait"}
    /\ proc[p].target \notin RegisteredIds
    /\ nextCheckId' = IF proc[p].pc = "insert_check" THEN nextCheckId + 1 ELSE nextCheckId
    /\ IF p = Monitor
       THEN /\ proc' = [proc EXCEPT ![p].pc = "except", ![p].check.id = Null]
            /\ mon' = [mon EXCEPT !.failed_at = proc[p].target,
                                  !.failed_check = Null,
                                  !.failed_write = NoWrite]
       ELSE /\ proc' = [proc EXCEPT ![p] = Respond(p, IF proc[p].creating THEN 409 ELSE 500)]
            /\ UNCHANGED mon
    /\ UNCHANGED <<startup, deleter, nextTargetId, now, targets, checks, incidents, nextIncId, faults, seq>>

\* A transaction that inserted a check of target t and has neither
\* committed nor rolled back holds a key-share lock on the target row.
HoldsTargetLock(p, t) ==
    /\ proc[p].target = t
    /\ proc[p].check.id # Null
    /\ proc[p].pc \in {"read_open", "write_incident", "commit", "except"}
    /\ ~proc[p].lost

\* The DELETE not waiting for the transactions that reference the row.
DeleteTarget_NotBlocked(t) ==
    /\ deleter.pc = "idle"
    /\ deleter' = [pc |-> "commit", target |-> t,
                   affected |-> IF t \in RegisteredIds THEN 1 ELSE 0]
    /\ UNCHANGED <<startup, nextTargetId, now, targets, checks, incidents, nextCheckId, nextIncId, proc, mon, faults, seq>>

\* DELETE FROM targets WHERE id = %s; affected = cur.rowcount.  The DELETE
\* waits for the transactions holding a lock on the row.
DeleteTarget(t) ==
    /\ deleter.pc = "idle"
    /\ \A p \in Procs : ~HoldsTargetLock(p, t)
    /\ deleter' = [pc |-> "commit", target |-> t,
                   affected |-> IF t \in RegisteredIds THEN 1 ELSE 0]
    /\ UNCHANGED <<startup, nextTargetId, now, targets, checks, incidents, nextCheckId, nextIncId, proc, mon, faults, seq>>

\* conn.commit() of delete_target: the row is gone, and ON DELETE CASCADE
\* removes the checks and the incidents of the target with it.  Then the
\* answer: 404 when the DELETE found no row, 200 otherwise.
DeleteCommit ==
    /\ deleter.pc = "commit"
    /\ LET t == deleter.target IN
       IF deleter.affected = 1
       THEN /\ targets' = {r \in targets : r.id # t}
            /\ checks' = {c \in checks : c.target_id # t}
            /\ incidents' = {i \in incidents : i.target_id # t}
            /\ seq' = [seq EXCEPT ![t] = InitSeq[t]]
       ELSE UNCHANGED <<targets, checks, incidents, seq>>
    /\ deleter' = NoDelete
    /\ UNCHANGED <<startup, nextTargetId, now, nextCheckId, nextIncId, proc, mon, faults>>

\* conn.commit() of delete_target raises: the finally clause closes the
\* connection, which discards the DELETE.
DeleteFail ==
    /\ deleter.pc = "commit"
    /\ faults < MaxFaults
    /\ faults' = faults + 1
    /\ deleter' = NoDelete
    /\ UNCHANGED <<startup, nextTargetId, now, targets, checks, incidents, nextCheckId, nextIncId, proc, mon, seq>>

\* ------------------------------------------------------------------ clock
Tick(maxTime) ==
    /\ now < maxTime
    /\ now' = now + 1
    /\ UNCHANGED <<startup, deleter, nextTargetId, targets, checks, incidents, nextCheckId, nextIncId, proc, mon, faults, seq>>

\* ---------------------------------------------------------- specifications
\* The steps of the monitor thread while no store call fails.
MonitorRun(maxChecks) ==
    \/ MonConnect
    \/ MonNow
    \/ MonGetDue
    \/ MonLoop(maxChecks)
    \/ MonClose
    \/ MonSleep
    \/ MonWake
    \/ ReadLast(Monitor)
    \/ CheckedAt(Monitor)
    \/ Probe(Monitor)
    \/ InsertCheck(Monitor)
    \/ ReadOpen(Monitor)
    \/ WriteIncident(Monitor)
    \/ Commit(Monitor)

\* A store call of the monitor thread fails, and what follows from it.
MonitorFault ==
    \/ MonConnectFail
    \/ \E lost \in BOOLEAN : MonFail(lost)
    \/ MonExcept

MonitorStep(maxChecks) == MonitorRun(maxChecks) \/ MonitorFault

\* The steps of the manual_check requests while no store call fails.
WorkerRun(maxChecks) ==
    \E w \in Workers :
        \/ \E t \in TargetIds : ManualCheck(w, t, maxChecks)
        \/ ReadLast(w)
        \/ CheckedAt(w)
        \/ Probe(w)
        \/ InsertCheck(w)
        \/ ReadOpen(w)
        \/ WriteIncident(w)
        \/ Commit(w)

WorkerStep(maxChecks) == WorkerRun(maxChecks) \/ \E w \in Workers : ManualFail(w)

\* The whole program: the monitor thread and the request threads.
Next == MonitorStep(MaxChecks) \/ WorkerStep(MaxChecks) \/ Tick(MaxTime)
Spec == Init /\ [][Next]_vars

\* The monitor thread alone: no manual_check request is ever made.
SchedNext == MonitorStep(SchedMaxChecks) \/ Tick(SchedMaxTime)
SchedSpec == SchedInit /\ [][SchedNext]_vars

\* ------------------------------------------------------------ properties
RunPcs == {"read_last", "utc_now", "probe", "insert_check", "insert_wait", "read_open",
           "write_incident", "commit"}
Quiescent == \A p \in Procs : proc[p].pc \notin RunPcs

\* The order get_last_check sorts by, ties broken by id.
Before(c, d) ==
    \/ c.checked_at < d.checked_at
    \/ c.checked_at = d.checked_at /\ c.id < d.id

\* The check of the same target right before c, if any.
PrevOf(c) ==
    {d \in ChecksOf(c.target_id) :
        /\ Before(d, c)
        /\ \A e \in ChecksOf(c.target_id) : Before(e, c) => (e = d \/ Before(e, d))}

\* c is the first check of a maximal run of down checks.
StartsRun(c) == ~c.is_up /\ \A d \in PrevOf(c) : d.is_up

\* u is the first up check after the down check c.
FirstUpAfter(c, u) ==
    /\ u.target_id = c.target_id /\ u.is_up /\ Before(c, u)
    /\ \A e \in ChecksOf(c.target_id) : (Before(c, e) /\ Before(e, u)) => ~e.is_up

\* C1: at every instant, also when a manual check runs concurrently with a
\* scheduler tick on the same target, each target has at most one incident
\* with is_resolved = false.
C1_AtMostOneOpenIncident ==
    \A t \in TargetIds : Cardinality(OpenIncidentsOf(t)) <= 1

\* C2: when only the scheduler thread runs checks, every target has at most
\* one unresolved incident after any sequence of ticks, and one call of
\* run_single_check inserts at most one incident row and updates at most one.
C2_SchedulerOneOpenOneWrite ==
    /\ \A t \in TargetIds : Cardinality(OpenIncidentsOf(t)) <= 1
    /\ proc[Monitor].rows_inserted <= 1
    /\ proc[Monitor].rows_updated <= 1

\* The scheduler has closed one incident by an UPDATE while an incident it
\* inserted is open.
C2_Witness ==
    /\ \E i \in incidents : i.is_resolved
    /\ \E j \in incidents : ~j.is_resolved

\* C3: concurrent run_single_check calls on one target serialize: once they
\* are through, the target has as many incidents as the same checks produce
\* when run one after the other in commit order.
C3_CountAsInCommitOrder ==
    Quiescent => \A t \in TargetIds : Cardinality(IncidentsOf(t)) = seq[t].count

\* C4: every maximal run of consecutive down checks of a target is covered
\* by exactly one incident, which starts at the first down check of the run
\* (started_at, start_check_id) and which, once the first up check after the
\* run is committed, is resolved with that check's checked_at and id.
C4_OneIncidentPerDownRun ==
    /\ \A c \in checks : StartsRun(c) =>
         /\ Cardinality({i \in IncidentsOf(c.target_id) :
                           i.start_check_id = c.id /\ i.started_at = c.checked_at}) = 1
         /\ \A u \in checks : FirstUpAfter(c, u) =>
              \A i \in IncidentsOf(c.target_id) : i.start_check_id = c.id =>
                  /\ i.is_resolved
                  /\ i.ended_at = u.checked_at
                  /\ i.recovery_check_id = u.id
    /\ \A i \in incidents : \E c \in checks : StartsRun(c) /\ i.start_check_id = c.id

\* C5: after every committed check a target has an unresolved incident
\* exactly when its most recent check, the one get_last_check returns, is
\* down.
C5_OpenIffLastCheckDown ==
    \A t \in TargetIds : \A r \in get_last_check(t) :
        r.id # Null => ((OpenIncidentsOf(t) # {}) <=> ~r.is_up)

\* C6: every resolved incident has duration_seconds = max(0, floor(ended_at
\* - started_at in seconds)), a recovery_check_id naming an up check of the
\* same target and a start_check_id naming a down check.
C6_ResolvedIncidentShape ==
    \A i \in incidents : i.is_resolved =>
        /\ i.duration_seconds = Max(0, (i.ended_at - i.started_at) \div TicksPerSecond)
        /\ \E c \in checks :
             c.id = i.recovery_check_id /\ c.target_id = i.target_id /\ c.is_up
        /\ \E c \in checks : c.id = i.start_check_id /\ ~c.is_up

\* An incident that lasted at least a second was resolved while another
\* check of the target was still in flight.
C6_Witness ==
    /\ \E i \in incidents : i.is_resolved /\ i.duration_seconds >= 1
    /\ \E p \in Procs : proc[p].pc \in RunPcs

\* C7: every resolved incident has ended_at >= started_at, also when checks
\* of the same target overlap in time.
C7_EndedNotBeforeStarted ==
    \A i \in incidents : i.is_resolved => i.ended_at >= i.started_at

\* C8: an incident is never reopened: a row that is resolved is never
\* changed again, and a new incident is always a new row.
C8_ResolvedIncidentFrozen ==
    [][ /\ \A i \in incidents : i.is_resolved => i \in incidents'
        /\ \A j \in incidents' \ incidents :
             ~j.is_resolved => \A i \in incidents : i.id # j.id ]_vars


\* Position k of the tick's due list comes after the target that failed.
AfterFailed(k) == \E j \in 1..(k - 1) : mon.tick_due[j] = mon.failed_at

\* C9 as stated: when checking a due target fails, the scheduler goes on
\* with the next due target, so that by the time the tick sleeps every due
\* target after the failing one has been checked in that tick.
C9_LaterDueTargetsStillChecked ==
    (proc[Monitor].pc = "sleep" /\ mon.failed_at # Null) =>
        \A k \in 1..Len(mon.tick_due) : AfterFailed(k) => mon.tick_due[k] \in mon.entered

\* C9 as amended: when checking a due target fails, the tick is over: control
\* is in the except/finally/sleep part of the loop (or the thread has
\* ended), past the except clause nothing of the transaction is left, and no
\* due target after the failing one is checked in that tick.
C9_FailureEndsTick ==
    mon.failed_at # Null =>
        /\ proc[Monitor].pc \in {"except", "close", "time_sleep", "sleep", "terminated"}
        /\ proc[Monitor].pc # "except" => proc[Monitor].write = NoWrite
        /\ \A k \in 1..Len(mon.tick_due) : AfterFailed(k) => mon.tick_due[k] \notin mon.entered

\* The check of target 1 failed in a tick in which target 2 was due too,
\* and the tick has reached its sleep.
C9_Witness ==
    /\ proc[Monitor].pc = "sleep"
    /\ mon.failed_at = 1
    /\ mon.tick_due = <<1, 2>>
    /\ mon.entered = {1}

\* C10: the monitor worker never terminates while the process lives,
\* whichever store call of a tick fails.
C10_MonitorNeverTerminates ==
    proc[Monitor].pc # "terminated"


\* The whole program with DELETE /api/targets/<id> requests.
DeleteStep ==
    \/ \E t \in TargetIds : DeleteTarget(t)
    \/ DeleteCommit
    \/ DeleteFail
    \/ \E p \in Procs :
         \/ InsertCheckWait(p)
         \/ InsertCheckGranted(p)
         \/ InsertCheckRejected(p)

DeleteNext ==
    \/ MonitorRun(DelMaxChecks)
    \/ MonExcept
    \/ WorkerRun(DelMaxChecks)
    \/ Tick(DelMaxTime)
    \/ DeleteStep
DeleteSpec == Init /\ [][DeleteNext]_vars

\* POST /api/targets and DELETE /api/targets/<id> requests
\* (and no manual check), from an empty targets table.
CreateInit ==
    /\ targets = {}
    /\ Store0
    /\ Started

\* The steps of the create_target requests.
CreateStep(maxChecks) ==
    \E w \in Workers :
        \/ \E i \in DOMAIN Urls : CreateTarget(w, Urls[i], maxChecks)
        \/ CreateCommit(w)
        \/ CreateSelectRow(w)
        \/ CreateSummary(w)
        \/ ReadLast(w)
        \/ CheckedAt(w)
        \/ Probe(w)
        \/ InsertCheck(w)
        \/ ReadOpen(w)
        \/ WriteIncident(w)
        \/ Commit(w)

CreateNext ==
    \/ CreateStep(DelMaxChecks)
    \/ \E w \in Workers :
         \/ \E i \in DOMAIN Urls : CreateTargetWait(w, Urls[i], DelMaxChecks)
         \/ CreateTargetResume(w)
    \/ \E w \in Workers : ManualFail(w)
    \/ Tick(DelMaxTime)
    \/ DeleteStep
CreateSpec == CreateInit /\ [][CreateNext]_vars

\* The monitor thread and create_target requests, no store call failing.
RegisterNext ==
    \/ MonitorRun(RegMaxChecks)
    \/ CreateStep(RegMaxChecks)
    \/ Tick(RegMaxTime)
RegisterSpec == CreateInit /\ [][RegisterNext]_vars

\* The monitor thread and manual_check requests on one target whose server
\* answers 200 or 503 or not at all, so that two down checks can differ in
\* their reason.  No store call fails.
EngineInit ==
    /\ targets = {Target(1, Urls[2], 1)}
    /\ Store0
    /\ Started

EngineNext == MonitorRun(EngMaxChecks) \/ WorkerRun(EngMaxChecks) \/ Tick(EngMaxTime)
EngineSpec == EngineInit /\ [][EngineNext]_vars

\* ---------------------------------------------------------- init_db alone
\* A row of a table holding the value 1 in every column the table has.
SampleRow(db, table) ==
    [table |-> table, id |-> 1,
     values |-> [c \in {col[2] : col \in {x \in db.columns : x[1] = table}} |-> 1]]

\* The columns init_db adds with ALTER TABLE, and the indexes it creates
\* with CREATE INDEX.
AdditiveColumns ==
    { <<"targets", "expected_substring">>, <<"targets", "expected_json_keys">>,
      <<"targets", "max_latency_ms">>, <<"checks", "reason_code">> }
NamedIndexes ==
    { "idx_checks_target_time", "idx_checks_checked_at", "idx_incidents_target_time",
      "idx_incidents_open" }

\* The databases init_db is run on: an empty one, and the ones an earlier
\* version left, without some of the additive columns and of the indexes,
\* holding one row per table.
OlderDbs ==
    { LET full == init_db(EmptyDb)
          old == Db(full.tables, full.columns \ cs, full.indexes \ is, {})
      IN  [old EXCEPT !.rows = {SampleRow(old, t) : t \in old.tables}] :
        cs \in SUBSET AdditiveColumns, is \in SUBSET NamedIndexes }

InitDbInit ==
    /\ targets = {TargetRow(1, 1)}
    /\ now = 0
    /\ checks = {}
    /\ incidents = {}
    /\ nextCheckId = 1
    /\ nextIncId = 1
    /\ proc = [p \in Procs |-> IdleProc("idle")]
    /\ mon = InitMon
    /\ faults = 0
    /\ seq = InitSeq
    /\ deleter = NoDelete
    /\ classified = NoClassified
    /\ monitor_started = FALSE
    /\ starters = [c \in Callers |-> "returned"]
    /\ monitor_threads = 0
    /\ nextTargetId = 2
    /\ \E db \in OlderDbs \cup {EmptyDb} : schema = [db |-> db, runs |-> 0]

\* create_app calls init_db()
InitDb ==
    /\ schema.runs < MaxInitRuns
    /\ schema' = [db |-> init_db(schema.db), runs |-> schema.runs + 1]
    /\ UNCHANGED <<now, targets, checks, incidents, nextCheckId, nextIncId, proc, mon,
                   faults, seq, classified, monitor_started, starters, monitor_threads,
                   nextTargetId, deleter>>

InitDbNext == InitDb
InitDbSpec == InitDbInit /\ [][InitDbNext]_vars

\* Two registered targets, one probed every two seconds and one every
\* second, checked by the monitor alone: the poll is shorter than the first
\* interval, so a tick can find a target not yet due.
DueInit ==
    /\ targets = {TargetRow(1, 2), TargetRow(2, 1)}
    /\ Store0
    /\ Started

DueSpec == DueInit /\ [][SchedNext]_vars

\* ------------------------------------------------------ one probe alone
\* Any target rules, any outcome of urlopen.
ClassifyInit ==
    /\ targets = {TargetRow(1, 1)}
    /\ Store0
    /\ monitor_started = TRUE
    /\ starters = [c \in Callers |-> "returned"]
    /\ monitor_threads = 1
    /\ schema = FreshSchema
    /\ nextTargetId = 2
    /\ \E t \in RuleSets, o \in Outcomes :
         classified = [pc |-> "try", target |-> t, outcome |-> o, check |-> NoVerdict]

\* run_single_check from the try statement to the values it inserts
Classify ==
    /\ classified.pc = "try"
    /\ classified' = [classified EXCEPT
                        !.pc = "insert",
                        !.check = probe(classified.target, classified.outcome)]
    /\ UNCHANGED <<now, targets, checks, incidents, nextCheckId, nextIncId, proc, mon,
                   faults, seq, monitor_started, starters, monitor_threads, schema,
                   nextTargetId, deleter>>

ClassifyNext == Classify
ClassifySpec == ClassifyInit /\ [][ClassifyNext]_vars

\* ------------------------------------- start_monitor_thread, concurrently
\* The process before create_app: no monitor thread, monitor_started False.
StartInit ==
    /\ targets = {TargetRow(1, 1)}
    /\ now = 0
    /\ checks = {}
    /\ incidents = {}
    /\ nextCheckId = 1
    /\ nextIncId = 1
    /\ proc = [p \in Procs |-> IdleProc("idle")]
    /\ mon = InitMon
    /\ faults = 0
    /\ seq = InitSeq
    /\ deleter = NoDelete
    /\ classified = NoClassified
    /\ monitor_started = FALSE
    /\ starters = [c \in Callers |-> "returned"]
    /\ monitor_threads = 0
    /\ schema = FreshSchema
    /\ nextTargetId = 2

StartFrame ==
    UNCHANGED <<now, targets, checks, incidents, nextCheckId, nextIncId, proc, mon,
                faults, seq, classified, schema, nextTargetId, deleter>>

\* a thread calls start_monitor_thread()
StartCall(c) ==
    /\ starters[c] = "returned"
    /\ starters' = [starters EXCEPT ![c] = "if"]
    /\ UNCHANGED <<monitor_started, monitor_threads>>
    /\ StartFrame

\* if monitor_started: return
StartTest(c) ==
    /\ starters[c] = "if"
    /\ starters' = [starters EXCEPT ![c] = IF monitor_started THEN "returned" ELSE "assign"]
    /\ UNCHANGED <<monitor_started, monitor_threads>>
    /\ StartFrame

\* monitor_started = True
StartAssign(c) ==
    /\ starters[c] = "assign"
    /\ monitor_started' = TRUE
    /\ starters' = [starters EXCEPT ![c] = "thread"]
    /\ UNCHANGED monitor_threads
    /\ StartFrame

\* worker = threading.Thread(target=monitor_loop, ...); worker.start()
StartWorker(c) ==
    /\ starters[c] = "thread"
    /\ monitor_threads' = monitor_threads + 1
    /\ starters' = [starters EXCEPT ![c] = "returned"]
    /\ UNCHANGED monitor_started
    /\ StartFrame

start_monitor_thread(c) == StartCall(c) \/ StartTest(c) \/ StartAssign(c) \/ StartWorker(c)

StartNext == \E c \in Callers : start_monitor_thread(c)
StartSpec == StartInit /\ [][StartNext]_vars

\* C11: a check row and the incident change it causes are committed
\* together or not at all: every step of an iteration but its commit leaves
\* checks and incidents as they were, and after an iteration that failed
\* neither its check row nor an incident row written for it is in the store.
C11_CheckAndIncidentAtomic ==
    /\ [](mon.failed_at # Null =>
            /\ \A c \in checks : c.id # mon.failed_check
            /\ \A i \in incidents :
                 /\ i.id # mon.failed_write.id \/ mon.failed_write.op # "insert"
                 /\ mon.failed_check # Null =>
                      (i.start_check_id # mon.failed_check
                       /\ i.recovery_check_id # mon.failed_check))
    /\ [][ (/\ proc[Monitor].pc \in RunPcs \cup {"except"}
            /\ ~(proc[Monitor].pc = "commit" /\ proc'[Monitor].pc = "loop"))
           => (checks' = checks /\ incidents' = incidents) ]_vars

\* An iteration failed after it had inserted its check row and written an
\* incident row, and the tick has gone to sleep.
C11_Witness ==
    /\ proc[Monitor].pc = "sleep"
    /\ mon.failed_check # Null
    /\ mon.failed_write.op # "none"


\* ---------------------------------------------------------------------
Taxonomy == {"timeout", "dns_error", "ssl_error", "connection_error", "unknown_error",
             "http_4xx", "http_5xx", "latency_exceeded", "content_mismatch",
             "invalid_json", "json_schema_mismatch"}

\* C12: every check about to be recorded has is_up true exactly when its
\* reason_code is null, and a down check carries one of the eleven codes of
\* the taxonomy, whichever path produced it.
C12_UpIffNoReasonInTaxonomy ==
    classified.pc = "insert" =>
        /\ classified.check.is_up <=> classified.check.reason_code = "null"
        /\ ~classified.check.is_up => classified.check.reason_code \in Taxonomy

\* A transport exception that is no socket timeout, raised within the
\* first millisecond, has been classified down as timeout by its text.
C12_Witness ==
    /\ classified.pc = "insert"
    /\ classified.outcome.path = "exception"
    /\ ~IsTimeout(classified.outcome.exc)
    /\ classified.check.latency_ms = 0
    /\ ~classified.check.is_up
    /\ classified.check.reason_code = "timeout"

\* C16: however the calls of start_monitor_thread interleave, at most one
\* monitor worker thread is ever created.
C16_AtMostOneMonitorThread == monitor_threads <= 1


\* The rules of the classification, each read off the probe itself.
TransportFails(o) == o.path = "exception"
StatusFails(o) == o.status_code # Null /\ ~(200 <= o.status_code /\ o.status_code < 400)
LatencyFails(t, o) ==
    t.max_latency_ms # Null /\ o.latency_ms # Null /\ o.latency_ms > t.max_latency_ms
SubstringFails(t, o) ==
    o.path = "response" /\ t.expected_substring # ""
    /\ t.expected_substring \notin o.body.substrings
JsonKeysFail(t, o) ==
    /\ o.path = "response"
    /\ \E i \in DOMAIN t.expected_json_keys : t.expected_json_keys[i] # ""
    /\ \/ ~o.body.is_json
       \/ \E i \in DOMAIN t.expected_json_keys :
            t.expected_json_keys[i] # "" /\ t.expected_json_keys[i] \notin o.body.paths
\* The reason codes the earliest failing rule allows; {"null"} when none fails.
FirstFailingRule(t, o) ==
    IF TransportFails(o)
    THEN {"timeout", "dns_error", "ssl_error", "connection_error", "unknown_error"}
    ELSE IF StatusFails(o) THEN {"http_4xx", "http_5xx"}
    ELSE IF LatencyFails(t, o) THEN {"latency_exceeded"}
    ELSE IF SubstringFails(t, o) THEN {"content_mismatch"}
    ELSE IF JsonKeysFail(t, o) THEN {"invalid_json", "json_schema_mismatch"}
    ELSE {"null"}

\* C17: the recorded reason_code is that of the earliest failing rule in the
\* order transport failure, HTTP status, max_latency_ms, expected_substring,
\* expected_json_keys, and the check is up exactly when no rule fails.
C17_FirstFailingRuleWins ==
    classified.pc = "insert" =>
        /\ classified.check.reason_code
             \in FirstFailingRule(classified.target, classified.outcome)
        /\ classified.check.is_up
             <=> FirstFailingRule(classified.target, classified.outcome) = {"null"}

\* C18: a probe that yields a status code is down for status reasons exactly
\* when the code is outside [200, 400), then with http_5xx from 500 on and
\* http_4xx below and the message 'HTTP <code>'; a code inside [200, 400)
\* never yields http_4xx or http_5xx, on the response path or the HTTPError
\* path.
C18_StatusReasonIffOutside2xx3xx ==
    (classified.pc = "insert" /\ classified.outcome.path # "exception") =>
        LET code == classified.check.status_code
            outside == ~(200 <= code /\ code < 400)
        IN  /\ outside <=> classified.check.reason_code \in {"http_4xx", "http_5xx"}
            /\ outside =>
                 /\ classified.check.reason_code
                      = (IF code >= 500 THEN "http_5xx" ELSE "http_4xx")
                 /\ classified.check.error_message = <<"HTTP", code>>
                 /\ ~classified.check.is_up


\* C13: of two checks of the same target the one with the larger id never
\* has the smaller checked_at, manual checks included.
C13_LargerIdNotEarlier ==
    \A c, d \in checks :
        (c.target_id = d.target_id /\ c.id < d.id) => c.checked_at <= d.checked_at


\* C14: get_due_targets returns a target exactly when it has no check or
\* its most recent check is at least interval_seconds older than now, the
\* value utc_now() gave the call, and returns the due targets in ascending
\* id order.
C14_DueIffNoCheckOrIntervalElapsed ==
    [][ (proc[Monitor].pc = "get_due" /\ proc'[Monitor].pc = "loop") =>
          LET due == mon'.tick_due
              returned == {due[i] : i \in DOMAIN due}
          IN  /\ \A i, j \in DOMAIN due : i < j => due[i] < due[j]
              /\ returned \subseteq RegisteredIds
              /\ \A t \in RegisteredIds :
                   t \in returned <=>
                     \/ \A c \in checks : c.target_id # t
                     \/ \E c \in checks :
                          /\ c.target_id = t
                          /\ \A d \in checks : d.target_id = t => d.checked_at <= c.checked_at
                          /\ mon.now - c.checked_at
                               >= TargetById(t).interval_seconds * TicksPerSecond ]_vars

\* get_due_targets has just returned a list that holds a target that was
\* checked before and leaves out a registered target that is not due yet.
C14_Witness ==
    /\ proc[Monitor].pc = "loop"
    /\ mon.due = mon.tick_due
    /\ \E i \in DOMAIN mon.tick_due : ChecksOf(mon.tick_due[i]) # {}
    /\ \E t \in RegisteredIds :
         /\ \A i \in DOMAIN mon.tick_due : mon.tick_due[i] # t
         /\ ChecksOf(t) # {}

\* C15: with the scheduler alone, two checks of the same target are at
\* least interval_seconds apart.
C15_ChecksAtLeastIntervalApart ==
    \A c, d \in checks :
        (c.target_id = d.target_id /\ c.id < d.id) =>
            d.checked_at - c.checked_at
              >= TargetById(c.target_id).interval_seconds * TicksPerSecond

\* The target probed every two seconds has been checked twice, although the
\* monitor woke up in between.
C15_Witness ==
    \E c, d \in checks :
        /\ c.target_id = 1 /\ d.target_id = 1 /\ c.id < d.id
        /\ \E e \in checks :
             e.target_id = 2 /\ c.checked_at < e.checked_at /\ e.checked_at < d.checked_at


\* C19: every check and every incident references an existing target, and
\* the commit of delete_target(id) leaves no check and no incident of id,
\* also when a scheduled or manual check of that target is in flight.
C19_DeleteCascades ==
    /\ [](/\ \A c \in checks : c.target_id \in RegisteredIds
          /\ \A i \in incidents : i.target_id \in RegisteredIds)
    /\ [][ \A t \in RegisteredIds :
             t \notin {r.id : r \in targets'} =>
               /\ \A c \in checks' : c.target_id # t
               /\ \A i \in incidents' : i.target_id # t ]_vars

\* The target was deleted with its recorded check while the monitor had a
\* second check of it in flight: the DELETE has committed, and the INSERT
\* of that check has been refused.
C19_Witness ==
    /\ RegisteredIds = {}
    /\ checks = {}
    /\ incidents = {}
    /\ nextCheckId > 2
    /\ nextIncId > 1
    /\ deleter = NoDelete
    /\ proc[Monitor].pc = "except"
    /\ proc[Monitor].check.id = Null
    /\ mon.failed_at = 1


\* C20: the monitor holds at most one store connection at any time, and a
\* connection opened in a tick is closed before the sleep of that tick
\* begins, whether the tick completed or failed.
C20_OneConnectionClosedBeforeSleep ==
    /\ mon.open_conns <= 1
    /\ proc[Monitor].pc \in {"time_sleep", "sleep", "connect", "terminated"} =>
          mon.open_conns = 0

\* A tick that had opened its connection failed in a check and is asleep.
C20_Witness ==
    /\ proc[Monitor].pc = "sleep"
    /\ mon.conn
    /\ mon.failed_at # Null
    /\ mon.open_conns = 0


\* The incidents table the transition table asks for once row, a new check
\* of a target, is recorded by a call that read prev as the previous last
\* check of the target and open as its open incident (Null for none); id is
\* the key the incidents sequence gave the call.
TableApply(row, prev, open, id) ==
    IF row.is_up
    THEN IF prev.id # Null /\ ~prev.is_up /\ open # Null
         THEN { IF i.id = open
                THEN [i EXCEPT !.is_resolved = TRUE,
                               !.ended_at = row.checked_at,
                               !.duration_seconds =
                                   Max(0, (row.checked_at - i.started_at)
                                            \div TicksPerSecond),
                               !.recovery_check_id = row.id]
                ELSE i : i \in incidents }
         ELSE incidents
    ELSE IF open = Null
         THEN incidents \cup
                { [id |-> id, target_id |-> row.target_id,
                   started_at |-> row.checked_at, ended_at |-> Null,
                   duration_seconds |-> Null, is_resolved |-> FALSE,
                   reason_code |-> row.reason_code,
                   reason_message |-> row.error_message,
                   start_check_id |-> row.id, recovery_check_id |-> Null] }
         ELSE incidents

\* C21: a manual check changes the store as a scheduler iteration does: a
\* step that changes checks or incidents is the one commit of one call, by
\* the monitor or by a request alike, which adds one check row of the call's
\* target and leaves the incidents the transition table gives for that row,
\* the previous last check and the open incident the call read; the record
\* the call returns carries the id, checked_at, status_code, latency_ms,
\* is_up, reason_code and error_message of that row.
C21_ManualCheckAsSchedulerIteration ==
    [][ (checks' # checks \/ incidents' # incidents) =>
          \E p \in Procs :
            LET row == proc[p].check
                ret == ReturnedRecord(p)
            IN  /\ proc[p].pc = "commit"
                /\ proc'[p].pc # "commit"
                /\ row.id # Null /\ row.id \notin {c.id : c \in checks}
                /\ row.target_id = proc[p].target
                /\ row.checked_at = proc[p].checked_at
                /\ checks' = checks \cup {row}
                /\ incidents' = TableApply(row, proc[p].prev_check,
                                           proc[p].open_incident, proc[p].write.id)
                /\ ret.id = row.id
                /\ ret.checked_at[1] * TicksPerSecond + ret.checked_at[2] = row.checked_at
                /\ ret.status_code = row.status_code
                /\ ret.latency_ms = row.latency_ms
                /\ ret.is_up = row.is_up
                /\ ret.reason_code = row.reason_code
                /\ ret.error_message = row.error_message ]_vars

\* Before the monitor could wake a second time, its tick has recorded one
\* check and a manual check has recorded another, one of them closing the
\* incident the other opened.
C21_Witness ==
    /\ Cardinality(checks) = 2
    /\ \A c \in checks : c.checked_at < MONITOR_POLL_SECONDS * TicksPerSecond
    /\ proc[Monitor].pc \in {"loop", "close"}
    /\ mon.entered = {1}
    /\ mon.failed_at = Null
    /\ \A w \in Workers : proc[w].pc = "idle"
    /\ \E i \in incidents : i.is_resolved


\* C22: target urls are unique in every state; a create request for a url
\* that is registered is answered 409 and leaves targets, checks and
\* incidents unchanged; and 409 is the answer to such requests only.
C22_UniqueUrlsAnd409OnlyForDuplicate ==
    /\ [](\A r1, r2 \in targets : r1.url = r2.url => r1 = r2)
    /\ [][ (nextTargetId' # nextTargetId
             \/ \E w \in Workers : proc[w].pc = "create_wait" /\ proc'[w].pc # "create_wait") =>
             \E w \in Workers :
               \/ /\ proc'[w].pc = "create_commit"
                  /\ proc'[w].url \notin {r.url : r \in targets}
                  /\ targets' = targets /\ checks' = checks /\ incidents' = incidents
               \/ /\ proc'[w].pc = "create_wait"
                  /\ UrlHeld(proc'[w].url)
               \/ /\ proc'[w].response.status = 409
                  /\ proc'[w].response.url \in {r.url : r \in targets}
                  /\ targets' = targets /\ checks' = checks /\ incidents' = incidents ]_vars
    /\ [][ \A w \in Workers :
             (/\ proc'[w].response.status = 409
              /\ proc'[w].response # proc[w].response \/ nextTargetId' # nextTargetId
              /\ proc[w].pc # "idle" \/ nextTargetId' # nextTargetId)
             => proc'[w].response.url \in {r.url : r \in targets} ]_vars


\* Tables, columns and indexes of a database.
Objects(db) == <<db.tables, db.columns, db.indexes>>

\* C23: a run of init_db on a database init_db has already run on leaves
\* tables, columns, indexes and rows as they are; a run on an older
\* database without the additive columns ends with the tables, columns and
\* indexes of one run on an empty database; and every existing row keeps
\* the values of the columns it had.
C23_InitDbIdempotent ==
    [][ schema' # schema =>
          /\ Objects(schema'.db) = Objects(init_db(EmptyDb))
          /\ schema.runs >= 1 => schema'.db = schema.db
          /\ \A r \in schema.db.rows :
               \E q \in schema'.db.rows :
                 /\ q.table = r.table /\ q.id = r.id
                 /\ \A c \in DOMAIN r.values : q.values[c] = r.values[c]
          /\ Cardinality(schema'.db.rows) = Cardinality(schema.db.rows) ]_vars

\* init_db has run twice on a database that had a targets row and no
\* max_latency_ms column.
C23_Witness ==
    /\ schema.runs = 2
    /\ \E r \in schema.db.rows :
         /\ r.table = "targets"
         /\ r.values["url"] = 1
         /\ r.values["max_latency_ms"] = Null


\* A step that commits the check of p.
CommitsCheck(p) == proc[p].pc = "commit" /\ proc[p].check \in checks' \ checks

\* C24: in the no-op rows of the transition table the engine changes no
\* incident: a down check that finds an incident open (whatever its own
\* reason), and an up check whose previous check was up or absent (whether
\* or not it finds an incident open).
C24_NoOpRowsChangeNoIncident ==
    [][ \A p \in Procs :
          (/\ CommitsCheck(p)
           /\ \/ ~proc[p].check.is_up /\ proc[p].open_incident # Null
              \/ proc[p].check.is_up
                 /\ (proc[p].prev_check.id = Null \/ proc[p].prev_check.is_up))
          => /\ incidents' = incidents
             /\ nextIncId' = nextIncId ]_vars

\* An incident opened for a 503 is still open with its reason after a later
\* down check of the target, a timeout that took its second, was recorded.
C24_Witness ==
    \E i \in incidents, c \in checks :
        /\ ~i.is_resolved /\ i.reason_code = "http_5xx"
        /\ i.reason_message = <<"HTTP", 503>>
        /\ c.target_id = i.target_id /\ c.id > i.start_check_id
        /\ c.checked_at >= i.started_at
        /\ now >= c.checked_at + MinTimeoutSeconds * TicksPerSecond
        /\ ~c.is_up /\ c.reason_code = "timeout"

\* C25: a down check whose previous check was down and that finds no open
\* incident opens exactly one unresolved incident, with started_at,
\* reason_code, reason_message and start_check_id of the current check.
C25_DefensiveReopenFromCurrentCheck ==
    [][ \A p \in Procs :
          (/\ CommitsCheck(p)
           /\ ~proc[p].check.is_up
           /\ proc[p].prev_check.id # Null /\ ~proc[p].prev_check.is_up
           /\ proc[p].open_incident = Null)
          => /\ incidents \subseteq incidents'
             /\ Cardinality(incidents' \ incidents) = 1
             /\ \A n \in incidents' \ incidents :
                  /\ n.target_id = proc[p].target
                  /\ ~n.is_resolved /\ n.ended_at = Null
                  /\ n.started_at = proc[p].check.checked_at
                  /\ n.reason_code = proc[p].check.reason_code
                  /\ n.reason_message = proc[p].check.error_message
                  /\ n.start_check_id = proc[p].check.id ]_vars

\* A down check is about to commit the incident it inserted after reading a
\* down previous check with another reason and no open incident.
C25_Witness ==
    \E p \in Procs, d \in checks :
        /\ proc[p].pc = "commit" /\ proc[p].write.op = "insert"
        /\ proc[p].open_incident = Null
        /\ d.id = proc[p].prev_check.id
        /\ ~d.is_up /\ d.reason_code # proc[p].check.reason_code


\* The targets of the list the monitor got at the start of its tick.
TickDue == {mon.tick_due[k] : k \in 1..Len(mon.tick_due)}

\* The targets the monitor has taken up in its tick are the first n of the
\* list, the rest of the list is still to come.
TakenInOrder ==
    \E n \in 0..Len(mon.tick_due) :
        /\ mon.entered = {mon.tick_due[k] : k \in 1..n}
        /\ \/ mon.due = SubSeq(mon.tick_due, n + 1, Len(mon.tick_due))
           \/ /\ n > 0
              /\ mon.due = SubSeq(mon.tick_due, n, Len(mon.tick_due))

\* C26: within one tick the monitor checks the due targets one at a time in
\* ascending id order, each at most once, and the due list is the one
\* computed at the start of the tick: a target created or becoming due
\* later is not checked by this tick.
C26_TickChecksDueListOnceInOrder ==
    /\ [](/\ \A j, k \in 1..Len(mon.tick_due) :
                j < k => mon.tick_due[j] < mon.tick_due[k]
          /\ TakenInOrder
          /\ proc[Monitor].pc \in RunPcs =>
                /\ proc[Monitor].target \in mon.entered
                /\ \A e \in mon.entered : e <= proc[Monitor].target)
    /\ [][/\ mon.tick_due' # mon.tick_due =>
                \/ /\ proc[Monitor].pc = "get_due"
                   /\ \A t \in TargetIds :
                        t \in TickDue' <=> (t \in RegisteredIds /\ IsDue(t, mon.now))
                \/ /\ proc[Monitor].pc = "sleep"
                   /\ proc'[Monitor].pc = "connect"
                   /\ mon.tick_due' = <<>>
          /\ (proc[Monitor].pc = "loop" /\ proc'[Monitor].pc = "read_last") =>
                /\ proc'[Monitor].target \in TickDue
                /\ proc'[Monitor].target \notin mon.entered
                /\ \A e \in mon.entered : e < proc'[Monitor].target
          /\ CommitsCheck(Monitor) =>
                /\ proc[Monitor].check.target_id \in TickDue
                /\ proc[Monitor].check.target_id = proc[Monitor].target
          ]_vars

\* The tick that checked target 1 has left its loop while target 2, which
\* was created after the tick had computed its list and has no check yet,
\* is registered and due.
C26_Witness ==
    /\ proc[Monitor].pc = "close"
    /\ mon.failed_at = Null
    /\ mon.tick_due = <<1>> /\ mon.entered = {1} /\ mon.due = <<>>
    /\ 2 \in RegisteredIds /\ IsDue(2, now)


\* C27: with the scheduler alone (checks of a target one after the other,
\* failed iterations rolled back) the defensive reopen is never taken: a
\* target whose last check is down has an open incident, and whenever the
\* engine has read a down previous check it has found an open incident.
C27_DownPreviousCheckHasOpenIncident ==
    /\ \A t \in RegisteredIds :
         \A c \in get_last_check(t) :
            (c.id # Null /\ ~c.is_up) => OpenIncidentsOf(t) # {}
    /\ \A p \in Procs :
         (/\ proc[p].pc \in {"write_incident", "commit"}
          /\ proc[p].prev_check.id # Null
          /\ ~proc[p].prev_check.is_up)
         => /\ proc[p].open_incident # Null
            /\ ~(proc[p].pc = "commit" /\ proc[p].write.op = "insert")

\* The engine has run for a down check after a down check of the same
\* target and has found the incident of that target open.
C27_Witness ==
    /\ proc[Monitor].pc = "commit"
    /\ ~proc[Monitor].check.is_up
    /\ proc[Monitor].prev_check.id # Null
    /\ ~proc[Monitor].prev_check.is_up
    /\ proc[Monitor].open_incident # Null
    /\ \E i \in OpenIncidentsOf(proc[Monitor].target) :
         i.id = proc[Monitor].open_incident


====
